---- MODULE Spec2Model ----
(***************************************************************************)
(* SetupCV.setup (FreiStat, Setup_behavior/setup_cv.py): validation of the *)
(* parameter list of a cyclic voltammetry experiment, and the hand-over of *)
(* an accepted list to the data handling.                                  *)
(*                                                                         *)
(* A parameter list is a sequence of entries <<name, value>> (the Python   *)
(* [name, value]); position i of the code is element i + 1 here.           *)
(***************************************************************************)
EXTENDS Integers, Sequences, FiniteSets, TLC

(***************************************************************************)
(* Bounds of the model.                                                    *)
(***************************************************************************)
\* Parameter lists of 0 .. MaxLen entries are tried.
MaxLen == 12
\* Sub-ulp vertex values k * 2^-60, 0 < |k| <= MaxEps, are tried.
MaxEps == 1

(***************************************************************************)
(* data_storage/constants.py (imported with *, not part of the file).      *)
(* Error codes as the docstring of setup lists them; the voltage ranges as *)
(* the comment "2.1 V / 4.0 V" gives them, in mV; the remaining limits are *)
(* configuration values.                                                   *)
(***************************************************************************)
EC_NO_ERROR == 0
EC_SETUP == 11000
EC_SE_AMOUNT_PARAMETER == 1
EC_SE_SCAN_RANGE_ERROR == 2
EC_SE_PARAM_NOT_FOUND == 100
EC_SE_PARAM_OUT_OF_BOUND == 200
CV_NUM_PARAMETER == 11
VOLTAGE_RANGE == 2000
VOLTAGE_RANGE_FWP == 2100
MIN_STEP_SIZE == 1
MAX_STEP_SIZE == 1000
MIN_SCAN_RATE == 1
MAX_SCAN_RATE == 2000
MIN_CYCLE == 1
MAX_CYCLE == 500
LPTIARTIA_OPEN == 0
LPTIARTIA_512K == 26
ADCSINC2OSR_DISABLED == 0
ADCSINC2OSR_1333 == 12
ADCSINC3OSR_DISABLED == 0
ADCSINC3OSR_2 == 3
CV == "CV"
START_POTENTIAL == "StartVoltage"
LOWER_POTENTIAL == "FirstVertex"
UPPER_POTENTIAL == "SecondVertex"
STEP_SIZE == "Stepsize"
SCAN_RATE == "Scanrate"
CYCLE == "Cycle"
LPTIA_RTIA_SIZE == "LPTIA_Resistor"
FIXED_WE_POTENTIAL == "FixedWEPotential"
MAINS_FILTER == "MainsFilter"
SINC2_OVERSAMPLING == "Sinc2_Oversampling"
SINC3_OVERSAMPLING == "Sinc3_Oversampling"

(***************************************************************************)
(* Python numbers.  A value is int + eps * 2^-60 with either eps = 0 (an   *)
(* integer of small magnitude) or int = 0 (a float below the spacing of    *)
(* the doubles around any nonzero integer).  On these values the float     *)
(* operations of the code are exactly the ones below: a sum or difference  *)
(* with a nonzero integer part rounds to that integer (2^-60 * k is less   *)
(* than half an ulp of it), every other one is exact.                      *)
(***************************************************************************)
Num(n) == [int |-> n, eps |-> 0]

Tiny(k) == [int |-> 0, eps |-> k]

\* IEEE-754 round to nearest of int + eps * 2^-60
Round(x) == IF x.int # 0 THEN [int |-> x.int, eps |-> 0] ELSE x

\* a + b
Add(a, b) == Round([int |-> a.int + b.int, eps |-> a.eps + b.eps])

\* a - b
Sub(a, b) == Round([int |-> a.int - b.int, eps |-> a.eps - b.eps])

\* a < b
Lt(a, b) == a.int < b.int \/ (a.int = b.int /\ a.eps < b.eps)

\* a > b
Gt(a, b) == Lt(b, a)

\* a >= b
Geq(a, b) == ~Lt(a, b)

\* abs(a)
Abs(a) == IF Lt(a, Num(0)) THEN [int |-> -a.int, eps |-> -a.eps] ELSE a

(***************************************************************************)
(* SetupCV.setup, its local values as operators of the list it is given.   *)
(***************************************************************************)
\* listExperimentParameters[i][0]
Name(p, i) == p[i + 1][1]

\* listExperimentParameters[i][1]
Value(p, i) == p[i + 1][2]

\* The subscripts [1], [2] and [7] taken before the length is looked at
\* raise IndexError on a list that has no such entry.
RaisesIndexError(p) == ~(1 < Len(p) /\ 2 < Len(p) /\ 7 < Len(p))

fStartPotentialLB(p) ==
    IF Gt(Value(p, 1), Value(p, 2)) THEN Value(p, 2) ELSE Value(p, 1)

\* Mutant: the upper bound taken from the first vertex whichever is higher.
fStartPotentialUB_First(p) == Value(p, 1)

fStartPotentialUB(p) ==
    IF Gt(Value(p, 1), Value(p, 2)) THEN Value(p, 1) ELSE Value(p, 2)

\* Mutant: the difference without abs().
fRange_Signed(p) == Sub(Value(p, 2), Value(p, 1))

fRange(p) == Abs(Sub(Value(p, 2), Value(p, 1)))

fVoltageRange(p) ==
    IF Value(p, 7) = Num(1) THEN Num(VOLTAGE_RANGE_FWP)
                            ELSE Num(VOLTAGE_RANGE * 2)

\* [name, lower bound, upper bound] per position
listReferenceList(p) ==
    << <<START_POTENTIAL, fStartPotentialLB(p), fStartPotentialUB(p)>>,
       <<LOWER_POTENTIAL, Sub(fStartPotentialUB(p), fVoltageRange(p)),
                          Add(fStartPotentialLB(p), fVoltageRange(p))>>,
       <<UPPER_POTENTIAL, Sub(fStartPotentialUB(p), fVoltageRange(p)),
                          Add(fStartPotentialLB(p), fVoltageRange(p))>>,
       <<STEP_SIZE, Num(MIN_STEP_SIZE), Num(MAX_STEP_SIZE)>>,
       <<SCAN_RATE, Num(MIN_SCAN_RATE), Num(MAX_SCAN_RATE)>>,
       <<CYCLE, Num(MIN_CYCLE), Num(MAX_CYCLE)>>,
       <<LPTIA_RTIA_SIZE, Num(LPTIARTIA_OPEN), Num(LPTIARTIA_512K)>>,
       <<FIXED_WE_POTENTIAL, Num(0), Num(1)>>,
       <<MAINS_FILTER, Num(0), Num(1)>>,
       <<SINC2_OVERSAMPLING, Num(ADCSINC2OSR_DISABLED), Num(ADCSINC2OSR_1333)>>,
       <<SINC3_OVERSAMPLING, Num(ADCSINC3OSR_DISABLED), Num(ADCSINC3OSR_2)>> >>

\* len(listExperimentParameters) != CV_NUM_PARAMETER
WrongAmount(p) == Len(p) # CV_NUM_PARAMETER

\* listExperimentParameters[iEntry][0] != listReferenceList[iEntry][0]
NamedWrong(p, ref, iEntry) == Name(p, iEntry) # ref[iEntry + 1][1]

\* Mutant: the bounds themselves rejected (<= and >= for < and >).
OutOfBound_Exclusive(p, ref, iEntry) ==
    \/ ~Gt(Value(p, iEntry), ref[iEntry + 1][2])
    \/ ~Lt(Value(p, iEntry), ref[iEntry + 1][3])

\* the value of entry iEntry is below the lower or above the upper bound
OutOfBound(p, ref, iEntry) ==
    \/ Lt(Value(p, iEntry), ref[iEntry + 1][2])
    \/ Gt(Value(p, iEntry), ref[iEntry + 1][3])

\* Mutant: the bounds of an entry checked before its name.
RECURSIVE CheckEntries_RangeFirst(_, _, _)
CheckEntries_RangeFirst(p, ref, iEntry) ==
    IF iEntry >= Len(p) THEN EC_NO_ERROR
    ELSE IF OutOfBound(p, ref, iEntry)
         THEN EC_SETUP + EC_SE_PARAM_OUT_OF_BOUND + iEntry
    ELSE IF NamedWrong(p, ref, iEntry)
         THEN EC_SETUP + EC_SE_PARAM_NOT_FOUND + iEntry
    ELSE CheckEntries_RangeFirst(p, ref, iEntry + 1)

\* The loop over the entries from iEntry on: the error code of the first
\* return it takes, EC_NO_ERROR when it runs to its end.
RECURSIVE CheckEntries(_, _, _)
CheckEntries(p, ref, iEntry) ==
    IF iEntry >= Len(p) THEN EC_NO_ERROR
    ELSE IF NamedWrong(p, ref, iEntry)
         THEN EC_SETUP + EC_SE_PARAM_NOT_FOUND + iEntry
    ELSE IF OutOfBound(p, ref, iEntry)
         THEN EC_SETUP + EC_SE_PARAM_OUT_OF_BOUND + iEntry
    ELSE CheckEntries(p, ref, iEntry + 1)

\* Mutant: > for >=.
ScanRangeExceeded_Strict(p) == Gt(fRange(p), fVoltageRange(p))

\* fRange >= fVoltageRange
ScanRangeExceeded(p) == Geq(fRange(p), fVoltageRange(p))

\* The value setup returns for a list on which it raises nothing.
ErrorCode(p) ==
    IF WrongAmount(p) THEN EC_SETUP + EC_SE_AMOUNT_PARAMETER
    ELSE IF CheckEntries(p, listReferenceList(p), 0) # EC_NO_ERROR
         THEN CheckEntries(p, listReferenceList(p), 0)
    ELSE IF ScanRangeExceeded(p) THEN EC_SETUP + EC_SE_SCAN_RANGE_ERROR
    ELSE EC_NO_ERROR

(***************************************************************************)
(* The parameter lists setup is called with.                               *)
(***************************************************************************)
\* A list setup accepts: the names in the order of the reference list, the
\* start voltage between the vertices, every fixed field at its lower bound.
DefaultList ==
    << <<START_POTENTIAL, Num(0)>>, <<LOWER_POTENTIAL, Num(1)>>,
       <<UPPER_POTENTIAL, Num(-1)>>, <<STEP_SIZE, Num(MIN_STEP_SIZE)>>,
       <<SCAN_RATE, Num(MIN_SCAN_RATE)>>, <<CYCLE, Num(MIN_CYCLE)>>,
       <<LPTIA_RTIA_SIZE, Num(LPTIARTIA_OPEN)>>, <<FIXED_WE_POTENTIAL, Num(0)>>,
       <<MAINS_FILTER, Num(0)>>,
       <<SINC2_OVERSAMPLING, Num(ADCSINC2OSR_DISABLED)>>,
       <<SINC3_OVERSAMPLING, Num(ADCSINC3OSR_DISABLED)>> >>

Positions == 0 .. (CV_NUM_PARAMETER - 1)

\* The positions whose bounds do not depend on the list.
FixedPositions == 3 .. (CV_NUM_PARAMETER - 1)

RefName(i) == listReferenceList(DefaultList)[i + 1][1]

FixedLower(i) == listReferenceList(DefaultList)[i + 1][2]

FixedUpper(i) == listReferenceList(DefaultList)[i + 1][3]

\* p with entry i replaced by e
Replace(p, i, e) == [p EXCEPT ![i + 1] = e]

\* p with the entries i and j exchanged
Exchange(p, i, j) == [p EXCEPT ![i + 1] = p[j + 1], ![j + 1] = p[i + 1]]

\* p with the values (not the names) of the two vertices exchanged
SwapVertices(p) ==
    [p EXCEPT ![2] = <<p[2][1], p[3][2]>>, ![3] = <<p[3][1], p[2][2]>>]

VertexValues ==
    {Num(n) : n \in {-VOLTAGE_RANGE, -1, 0, 1, VOLTAGE_RANGE, VOLTAGE_RANGE_FWP}}
        \cup {Tiny(k) : k \in (-MaxEps .. MaxEps) \ {0}}

StartValues == {Num(0), Num(1)}

\* The values tried at position i: for a fixed bound, the bound itself and
\* one unit beyond it.
PoolValues(i) ==
    IF i = 0 THEN StartValues
    ELSE IF i \in {1, 2} THEN VertexValues
    ELSE {Sub(FixedLower(i), Num(1)), FixedLower(i),
          FixedUpper(i), Add(FixedUpper(i), Num(1))}

Pool(i) == {<<n, v>> : n \in {RefName(i), "Unknown"}, v \in PoolValues(i)}

\* Rightly named lists: every start and vertex value with every value of
\* FixedWEPotential, the other fixed fields at their lower bounds.
BaseLists ==
    {[DefaultList EXCEPT ![1][2] = v0, ![2][2] = v1, ![3][2] = v2, ![8][2] = w] :
        v0 \in StartValues, v1 \in VertexValues, v2 \in VertexValues,
        w \in PoolValues(7)}

\* Accepted lists, and lists at the scan range limit of either envelope.
CoreLists ==
    {[DefaultList EXCEPT ![2][2] = v[1], ![3][2] = v[2], ![8][2] = v[3]] :
        v \in {<<Num(1), Num(-1), Num(0)>>,
               <<Num(-1), Num(1), Num(1)>>,
               <<Num(0), Num(VOLTAGE_RANGE_FWP), Num(1)>>,
               <<Num(VOLTAGE_RANGE), Num(-VOLTAGE_RANGE), Num(0)>>}}

\* One entry replaced.
OneOffLists ==
    UNION {{Replace(b, i, e) : b \in CoreLists, e \in Pool(i)} : i \in Positions}

\* Two entries replaced, around the default list.
TwoOffLists ==
    UNION {{Replace(Replace(DefaultList, ij[1], e), ij[2], f) :
                e \in Pool(ij[1]), f \in Pool(ij[2])} :
            ij \in Positions \X Positions}

\* The entries in the order of the docstring's "List of required
\* parameters": FixedWEPotential before LPTIA_Resistor.
DocstringOrderLists ==
    {Exchange(Replace(b, 7, <<FIXED_WE_POTENTIAL, w>>), 6, 7) :
        b \in BaseLists, w \in {Num(0), Num(1)}}

\* Lists of every length 0 .. MaxLen: a prefix, or further entries added.
RECURSIVE Padded(_, _)
Padded(p, n) ==
    IF Len(p) >= n THEN SubSeq(p, 1, n)
    ELSE Padded(Append(p, <<"Unknown", Num(0)>>), n)

OtherLengthLists ==
    {Padded(b, n) :
        b \in {DefaultList, Replace(DefaultList, 7, <<FIXED_WE_POTENTIAL, Num(1)>>),
               Replace(DefaultList, 0, <<"Unknown", Num(0)>>),
               Replace(DefaultList, 3, <<STEP_SIZE, Num(MAX_STEP_SIZE + 1)>>),
               Replace(DefaultList, 1, <<LOWER_POTENTIAL, Num(VOLTAGE_RANGE * 2)>>)},
        n \in 0 .. MaxLen}

ParameterLists ==
    BaseLists \cup OneOffLists \cup TwoOffLists \cup DocstringOrderLists \cup OtherLengthLists

(***************************************************************************)
(* The data handling setup stores into (data_handling, not part of the     *)
(* file): the experiment type, the experiment parameters, and the export   *)
(* files prepared so far.                                                   *)
(***************************************************************************)
StoredBefore ==
    {[type |-> "", parameters |-> <<>>, exportFiles |-> 0],
     [type |-> "CA", parameters |-> <<<<"Potential_Steps", Num(0)>>>>,
      exportFiles |-> 1]}

VARIABLES
    listExperimentParameters,  \* the argument of the call
    pc,                        \* the statement setup is at
    iErrorCode,                \* setup's local, returned at "returned"
    calls,                     \* the calls made on the data handling, in order
    dataHandling,              \* what the data handling holds
    before                     \* what the data handling held at the call

vars == <<listExperimentParameters, pc, iErrorCode, calls, dataHandling, before>>

Init ==
    /\ listExperimentParameters \in ParameterLists
    /\ pc = "derive"
    /\ iErrorCode = EC_NO_ERROR
    /\ calls = <<>>
    /\ dataHandling \in StoredBefore
    /\ before = dataHandling

\* Lines 132-173: the vertex order, fRange, fVoltageRange and the reference
\* list are taken from entries 1, 2 and 7 of the list.
DeriveBounds ==
    /\ pc = "derive"
    /\ pc' = IF RaisesIndexError(listExperimentParameters)
             THEN "raised" ELSE "check_amount"
    /\ UNCHANGED <<listExperimentParameters, iErrorCode, calls, dataHandling, before>>

\* Lines 175-179
CheckAmount ==
    /\ pc = "check_amount"
    /\ IF WrongAmount(listExperimentParameters)
       THEN /\ iErrorCode' = EC_SETUP + EC_SE_AMOUNT_PARAMETER
            /\ pc' = "returned"
       ELSE /\ iErrorCode' = iErrorCode
            /\ pc' = "check_entries"
    /\ UNCHANGED <<listExperimentParameters, calls, dataHandling, before>>

\* Lines 181-194
CheckIndividualEntries ==
    /\ pc = "check_entries"
    /\ LET code == CheckEntries(listExperimentParameters,
                                listReferenceList(listExperimentParameters), 0)
       IN  IF code # EC_NO_ERROR
           THEN /\ iErrorCode' = code
                /\ pc' = "returned"
           ELSE /\ iErrorCode' = iErrorCode
                /\ pc' = "check_scan_range"
    /\ UNCHANGED <<listExperimentParameters, calls, dataHandling, before>>

\* Mutant: the error code set and the return left out.
CheckScanRange_NoReturn ==
    /\ pc = "check_scan_range"
    /\ iErrorCode' = IF ScanRangeExceeded(listExperimentParameters)
                     THEN EC_SETUP + EC_SE_SCAN_RANGE_ERROR ELSE iErrorCode
    /\ pc' = "save_type"
    /\ UNCHANGED <<listExperimentParameters, calls, dataHandling, before>>

\* Lines 196-199
CheckScanRange ==
    /\ pc = "check_scan_range"
    /\ IF ScanRangeExceeded(listExperimentParameters)
       THEN /\ iErrorCode' = EC_SETUP + EC_SE_SCAN_RANGE_ERROR
            /\ pc' = "returned"
       ELSE /\ iErrorCode' = iErrorCode
            /\ pc' = "save_type"
    /\ UNCHANGED <<listExperimentParameters, calls, dataHandling, before>>

\* Mutant: the parameters saved before the type, the type never.
save_ExperimentType_AsParameters ==
    /\ pc = "save_type"
    /\ calls' = Append(calls, <<"save_ExperimentParmeters", listExperimentParameters>>)
    /\ dataHandling' = [dataHandling EXCEPT !.parameters = listExperimentParameters]
    /\ pc' = "save_parameters"
    /\ UNCHANGED <<listExperimentParameters, iErrorCode, before>>

\* Line 202
save_ExperimentType ==
    /\ pc = "save_type"
    /\ calls' = Append(calls, <<"save_ExperimentType", CV>>)
    /\ dataHandling' = [dataHandling EXCEPT !.type = CV]
    /\ pc' = "save_parameters"
    /\ UNCHANGED <<listExperimentParameters, iErrorCode, before>>

\* Line 203
save_ExperimentParmeters ==
    /\ pc = "save_parameters"
    /\ calls' = Append(calls, <<"save_ExperimentParmeters", listExperimentParameters>>)
    /\ dataHandling' = [dataHandling EXCEPT !.parameters = listExperimentParameters]
    /\ pc' = "setup_export"
    /\ UNCHANGED <<listExperimentParameters, iErrorCode, before>>

\* Line 206
setup_ExportFiles ==
    /\ pc = "setup_export"
    /\ calls' = Append(calls, <<"setup_ExportFiles">>)
    /\ dataHandling' = [dataHandling EXCEPT !.exportFiles = @ + 1]
    /\ pc' = "return"
    /\ UNCHANGED <<listExperimentParameters, iErrorCode, before>>

\* Line 209
ReturnErrorCode ==
    /\ pc = "return"
    /\ pc' = "returned"
    /\ UNCHANGED <<listExperimentParameters, iErrorCode, calls, dataHandling, before>>

Next ==
    \/ DeriveBounds
    \/ CheckAmount
    \/ CheckIndividualEntries
    \/ CheckScanRange
    \/ save_ExperimentType
    \/ save_ExperimentParmeters
    \/ setup_ExportFiles
    \/ ReturnErrorCode

Spec == Init /\ [][Next]_vars

(***************************************************************************)
(* The properties checked.                                                 *)
(***************************************************************************)
Args == listExperimentParameters

Returned == pc = "returned"

ArityError == EC_SETUP + EC_SE_AMOUNT_PARAMETER

ScanRangeError == EC_SETUP + EC_SE_SCAN_RANGE_ERROR

NamingError(i) == EC_SETUP + EC_SE_PARAM_NOT_FOUND + i

BoundsError(i) == EC_SETUP + EC_SE_PARAM_OUT_OF_BOUND + i

\* Entry i of p carries the name the reference list has at position i.
RightName(p, i) == Name(p, i) = listReferenceList(p)[i + 1][1]

\* The value of entry i of p lies within the bound the reference list has
\* at position i, both ends included.
InBound(p, i) ==
    /\ Geq(Value(p, i), listReferenceList(p)[i + 1][2])
    /\ Geq(listReferenceList(p)[i + 1][3], Value(p, i))

AllNamesRight(p) == \A i \in Positions : RightName(p, i)

\* StartVoltage lies between the two vertices.
StartBetweenVertices(p) ==
    /\ Geq(Value(p, 0), fStartPotentialLB(p))
    /\ Geq(fStartPotentialUB(p), Value(p, 0))

\* Every fixed-bound field other than i lies within its bound.
FixedFieldsInBound(p, i) == \A k \in FixedPositions \ {i} : InBound(p, k)

\* x - y and x + y as real numbers, before any rounding
RealDiff(x, y) == [int |-> x.int - y.int, eps |-> x.eps - y.eps]

RealSum(x, y) == [int |-> x.int + y.int, eps |-> x.eps + y.eps]

\* The two vertex bounds were computed without rounding.
ExactVertexBound(p) ==
    /\ Sub(fStartPotentialUB(p), fVoltageRange(p))
           = RealDiff(fStartPotentialUB(p), fVoltageRange(p))
    /\ Add(fStartPotentialLB(p), fVoltageRange(p))
           = RealSum(fStartPotentialLB(p), fVoltageRange(p))

\* The scan span was computed without rounding.
ExactRange(p) == Sub(Value(p, 2), Value(p, 1)) = RealDiff(Value(p, 2), Value(p, 1))

TheThreeCalls ==
    << <<"save_ExperimentType", CV>>,
       <<"save_ExperimentParmeters", Args>>,
       <<"setup_ExportFiles">> >>

\* C1: a list whose length is not 11 makes setup return the arity error
\* 11001 as a value: it never raises and runs no other check.
C1_WrongLengthReturnsArityError ==
    Len(Args) # CV_NUM_PARAMETER =>
        /\ pc \in {"derive", "check_amount", "returned"}
        /\ Returned => iErrorCode = ArityError

\* The names in the order of the docstring's "List of required parameters".
DocstringNames ==
    <<START_POTENTIAL, LOWER_POTENTIAL, UPPER_POTENTIAL, STEP_SIZE, SCAN_RATE,
      CYCLE, FIXED_WE_POTENTIAL, LPTIA_RTIA_SIZE, MAINS_FILTER,
      SINC2_OVERSAMPLING, SINC3_OVERSAMPLING>>

\* The bound the reference list gives the field of this name.
LowerOf(name) ==
    (CHOOSE r \in {listReferenceList(DefaultList)[k] : k \in 1 .. CV_NUM_PARAMETER} :
        r[1] = name)[2]

UpperOf(name) ==
    (CHOOSE r \in {listReferenceList(DefaultList)[k] : k \in 1 .. CV_NUM_PARAMETER} :
        r[1] = name)[3]

\* A list in the docstring's order, every fixed field within the bound of
\* its name, StartVoltage between the vertices and the scan span strictly
\* below the envelope the FixedWEPotential entry selects.
ValidInDocstringOrder(p) ==
    /\ Len(p) = CV_NUM_PARAMETER
    /\ \A i \in Positions : Name(p, i) = DocstringNames[i + 1]
    /\ \A i \in FixedPositions :
          /\ Geq(Value(p, i), LowerOf(Name(p, i)))
          /\ Geq(UpperOf(Name(p, i)), Value(p, i))
    /\ StartBetweenVertices(p)
    /\ Lt(fRange(p), IF Value(p, 6) = Num(1) THEN Num(VOLTAGE_RANGE_FWP)
                                             ELSE Num(VOLTAGE_RANGE * 2))

\* C2: a valid list in the docstring's order (FixedWEPotential at position
\* 6, LPTIA_Resistor at position 7) makes setup return 0.
C2_DocstringOrderAccepted ==
    (Returned /\ ValidInDocstringOrder(Args)) => iErrorCode = EC_NO_ERROR

\* C3: a call that returns 0 has made exactly the three calls save type
\* (CV), save parameters (the list given), setup export files, once each in
\* this order, and no call is made before the last check has passed.
C3_SuccessMakesTheThreeCallsInOrder ==
    /\ (Returned /\ iErrorCode = EC_NO_ERROR) => calls = TheThreeCalls
    /\ calls # <<>> =>
          /\ pc \in {"save_parameters", "setup_export", "return", "returned"}
          /\ iErrorCode = EC_NO_ERROR
          /\ ~WrongAmount(Args)
          /\ \A i \in Positions : RightName(Args, i) /\ InBound(Args, i)
          /\ ~ScanRangeExceeded(Args)
          /\ calls = SubSeq(TheThreeCalls, 1, Len(calls))

C3_Witness == Returned /\ iErrorCode = EC_NO_ERROR /\ Len(calls) = 3

\* C4: a call that returns a nonzero error code has made no call on the
\* data handling, which holds what it held before.
C4_ErrorMakesNoCall ==
    (Returned /\ iErrorCode # EC_NO_ERROR) =>
        /\ calls = <<>>
        /\ dataHandling = before

C4_Witness ==
    /\ Returned
    /\ iErrorCode = ScanRangeError
    /\ before.type # ""

\* C5: first error wins, in the order name(0), range(0), name(1), ...: the
\* lowest wrongly named position i, when everything before it passes, gives
\* 11100 + i whatever its value and whatever follows; the lowest position j
\* out of its bound, rightly named and with everything before it passing,
\* gives 11200 + j.
C5_FirstErrorWins ==
    (Returned /\ Len(Args) = CV_NUM_PARAMETER) =>
        \A i \in Positions :
            (\A k \in 0 .. (i - 1) : RightName(Args, k) /\ InBound(Args, k)) =>
                /\ ~RightName(Args, i) => iErrorCode = NamingError(i)
                /\ (RightName(Args, i) /\ ~InBound(Args, i))
                       => iErrorCode = BoundsError(i)

C5_Witness ==
    /\ Returned
    /\ Len(Args) = CV_NUM_PARAMETER
    /\ \E i \in Positions : \E j \in Positions :
          /\ i < j
          /\ iErrorCode = NamingError(i)
          /\ ~InBound(Args, i)
          /\ ~InBound(Args, j)

\* C6: the range checks are inclusive: in a list otherwise valid, a fixed
\* field at its lower or at its upper bound passes, and one unit below the
\* lower or above the upper bound gives 11200 + i.
C6_BoundsInclusive ==
    (Returned /\ Len(Args) = CV_NUM_PARAMETER /\ AllNamesRight(Args)) =>
        \A i \in FixedPositions :
            (/\ FixedFieldsInBound(Args, i)
             /\ InBound(Args, 0) /\ InBound(Args, 1) /\ InBound(Args, 2)
             /\ ~ScanRangeExceeded(Args)) =>
                /\ Value(Args, i) \in {FixedLower(i), FixedUpper(i)}
                       => iErrorCode = EC_NO_ERROR
                /\ Value(Args, i) \in {Sub(FixedLower(i), Num(1)),
                                       Add(FixedUpper(i), Num(1))}
                       => iErrorCode = BoundsError(i)

C6_Witness ==
    /\ Returned
    /\ Len(Args) = CV_NUM_PARAMETER
    /\ Value(Args, 5) = FixedUpper(5)
    /\ iErrorCode = EC_NO_ERROR

\* What the two lists have in common whatever their values: the reference
\* list, the scan span and the envelope.
SameDerivedBounds(p, q) ==
    /\ listReferenceList(p) = listReferenceList(q)
    /\ fRange(p) = fRange(q)
    /\ fVoltageRange(p) = fVoltageRange(q)

ValidButForScanRange(p) ==
    /\ Len(p) = CV_NUM_PARAMETER
    /\ AllNamesRight(p)
    /\ StartBetweenVertices(p)
    /\ \A k \in FixedPositions : InBound(p, k)

C9_ExceededGivesScanRangeError ==
    (/\ Returned
     /\ ValidButForScanRange(Args)
     /\ Gt(fRange(Args), fVoltageRange(Args))) => iErrorCode = ScanRangeError

====
